---- MODULE Spec2Model ----
(***************************************************************************)
(* Model of the Zoho OAuth2 provider (tools/auth/zoho.go): the ID-token    *)
(* claim strategy of Zoho.FetchAuthUser, the provider registry entry, and  *)
(* the confirm-email-change page of the admin UI.                          *)
(***************************************************************************)
EXTENDS Integers, Sequences, FiniteSets, TLC

VARIABLES
    \* --- Zoho.FetchAuthUser
    p,          \* receiver of FetchAuthUser: the provider's configuration
    token,      \* the *oauth2.Token handed to FetchAuthUser
    pc,         \* "ready" before the call, "done" after it
    result,     \* what the call produced: return values, or a panic
    \* --- provider registry
    Providers,  \* registered provider names, each with its factory
    heap,       \* provider objects by address
    handles,    \* the pointers the lookups returned, in order
    lookupErr,  \* error of the last lookup
    \* --- confirm-email-change page (component instance x)
    password_s, \* s: the password input
    loading_o,  \* o: a confirmEmailChange request is being awaited
    success_f,  \* f: the email change was confirmed
    params_l,   \* l: the route params (the token)
    newEmail_n, \* n: the new email shown in the heading
    pending,    \* confirmEmailChange requests in flight
    submits,    \* form submit events so far
    resolved,   \* requests that succeeded so far
    errors,     \* B.error toasts so far
    closed      \* window.close() was called

fetchVars == <<p, token, pc, result>>

registryVars == <<Providers, heap, handles, lookupErr>>

pageVars ==
    <<password_s, loading_o, success_f, params_l, newEmail_n, pending, submits,
      resolved, errors, closed>>

vars == <<fetchVars, registryVars, pageVars>>

(***************************************************************************)
(* Bounds                                                                  *)
(***************************************************************************)
\* longest `aud` list carried by an ID token
MaxAudLen == 2

\* provider instances taken from the registry
MaxInstances == 2

\* submit events of the confirm-email-change form
MaxSubmits == 3

(***************************************************************************)
(* JSON values as encoding/json decodes them into interface{}:             *)
(* nil, string, float64, bool, []interface{}                               *)
(***************************************************************************)
JNil == [t |-> "nil", s |-> "", l |-> <<>>]

JStr(x) == [t |-> "string", s |-> x, l |-> <<>>]

JNum(x) == [t |-> "float64", s |-> x, l |-> <<>>]

JBool(b) == [t |-> "bool", s |-> IF b THEN "true" ELSE "false", l |-> <<>>]

JList(q) == [t |-> "list", s |-> "", l |-> q]

\* v.(string) in its comma-ok form: the string and whether v held one
AsString(v) == [ok |-> v.t = "string", val |-> IF v.t = "string" THEN v.s ELSE ""]

EmptyClaims ==
    [iss |-> JNil, aud |-> JNil, sub |-> JNil, email |-> JNil, name |-> JNil,
     picture |-> JNil, email_verified |-> JNil, locale |-> JNil]

(***************************************************************************)
(* Go values: errors and *AuthUser                                         *)
(***************************************************************************)
NilErr == [isnil |-> TRUE, msg |-> "", arg |-> ""]

NewErr(m, a) == [isnil |-> FALSE, msg |-> m, arg |-> a]

\* the zero types.DateTime
ZeroDateTime == [t |-> 0]

NilUser ==
    [isnil |-> TRUE, Id |-> "", Username |-> "", Name |-> "", Email |-> "",
     AvatarUrl |-> "", RawUser |-> EmptyClaims, AccessToken |-> "",
     RefreshToken |-> "", Expiry |-> ZeroDateTime]

(***************************************************************************)
(* NewZohoProvider: the provider's defaults                                *)
(***************************************************************************)
NameZoho == "zoho"

NewZohoProvider ==
    [displayName |-> "Zoho", pkce |-> TRUE,
     scopes |-> <<"profile", "email", "openid">>,
     authURL |-> "https://accounts.zoho.com/oauth/v2/auth",
     tokenURL |-> "https://accounts.zoho.com/oauth/v2/token",
     clientId |-> "", clientSecret |-> "", redirectURL |-> ""]

(***************************************************************************)
(* jwt.Parser.ParseUnverified into jwt.MapClaims.  A raw token is the      *)
(* string's shape: its length, the number of '.'-separated segments, the   *)
(* state of its header and payload segments, and the claims the payload    *)
(* encodes.                                                                *)
(***************************************************************************)
Raw(empty, parts, header, payload, claims) ==
    [empty |-> empty, parts |-> parts, header |-> header, payload |-> payload, claims |-> claims]

\* the empty string
EmptyRaw == Raw(TRUE, 1, "undecodable", "undecodable", EmptyClaims)

ParseUnverified(raw) ==
    IF raw.parts # 3
    THEN [claims |-> EmptyClaims, err |-> NewErr("token contains an invalid number of segments", "")]
    ELSE IF raw.header = "undecodable"
    THEN [claims |-> EmptyClaims, err |-> NewErr("token is malformed", "header")]
    ELSE IF raw.payload = "undecodable"
    THEN [claims |-> EmptyClaims, err |-> NewErr("token is malformed", "claims")]
    ELSE IF raw.header = "unknownalg"
    THEN [claims |-> raw.claims, err |-> NewErr("signing method (alg) is unavailable.", "")]
    ELSE IF raw.header = "noalg"
    THEN [claims |-> raw.claims, err |-> NewErr("signing method (alg) is unspecified.", "")]
    ELSE [claims |-> raw.claims, err |-> NilErr]

(***************************************************************************)
(* jwt.MapClaims.VerifyAudience(cmp, req)                                  *)
(***************************************************************************)
\* verifyAud: aud is a sequence of strings; a match is looked for in every
\* entry, and an audience whose entries are all "" counts as absent
verifyAud(aud, cmp, required) ==
    IF Len(aud) = 0 THEN ~required
    ELSE IF \A i \in 1..Len(aud) : aud[i] = "" THEN ~required
    ELSE \E i \in 1..Len(aud) : aud[i] = cmp

VerifyAudience(claims, cmp, req) ==
    LET v == claims["aud"] IN
    IF v.t = "string" THEN verifyAud(<<v.s>>, cmp, req)
    ELSE IF v.t = "list"
    THEN IF \E i \in 1..Len(v.l) : v.l[i].t # "string"
         THEN FALSE
         ELSE verifyAud([i \in 1..Len(v.l) |-> v.l[i].s], cmp, req)
    ELSE verifyAud(<<>>, cmp, req)

(***************************************************************************)
(* Zoho.parseIDToken                                                       *)
(***************************************************************************)
validIssuers ==
    <<"https://accounts.zoho.com.au",
      "https://accounts.zohocloud.ca",
      "https://accounts.zoho.eu",
      "https://accounts.zoho.com",
      "https://accounts.zoho.in",
      "https://accounts.zoho.jp",
      "https://accounts.zoho.sa",
      "https://accounts.zoho.uk",
      "https://accounts.zoho.com.cn">>

\* a missing or non-string iss is let through
isValidIssuerOrEmpty(issuer) ==
    issuer = "" \/ \E i \in 1..Len(validIssuers) : issuer = validIssuers[i]

isValidIssuer(issuer) ==
    \E i \in 1..Len(validIssuers) : issuer = validIssuers[i]

\* the audience is verified as optional
audienceOKOptional(prov, claims) == VerifyAudience(claims, prov.clientId, FALSE)

audienceOK(prov, claims) == VerifyAudience(claims, prov.clientId, TRUE)

parseIDToken(prov, rawIDToken) ==
    LET parsed == ParseUnverified(rawIDToken)
        claims == parsed.claims
        issuer == AsString(claims["iss"]).val
    IN  IF ~parsed.err.isnil
        THEN [claims |-> EmptyClaims, isnil |-> TRUE,
              err |-> NewErr("failed to parse id_token", parsed.err.msg),
              trace |-> <<"ParseUnverified">>]
        ELSE IF ~isValidIssuer(issuer)
        THEN [claims |-> EmptyClaims, isnil |-> TRUE,
              err |-> NewErr("invalid id_token issuer", issuer),
              trace |-> <<"ParseUnverified", "issuer">>]
        ELSE IF ~audienceOK(prov, claims)
        THEN [claims |-> EmptyClaims, isnil |-> TRUE,
              err |-> NewErr("invalid id_token audience", ""),
              trace |-> <<"ParseUnverified", "issuer", "VerifyAudience">>]
        ELSE [claims |-> claims, isnil |-> FALSE, err |-> NilErr,
              trace |-> <<"ParseUnverified", "issuer", "VerifyAudience">>]

(***************************************************************************)
(* Zoho.FetchAuthUser                                                      *)
(***************************************************************************)
\* token.Extra("id_token"): the interface value stored under the key
Extra(tok, key) == IF key = "id_token" THEN tok.idToken ELSE [t |-> "nil", raw |-> EmptyRaw]

\* only the type assertion is checked, not the empty string
missingIDTokenTypeOnly(tok) == Extra(tok, "id_token").t # "string"

\* rawIDToken, ok := token.Extra("id_token").(string); !ok || rawIDToken == ""
missingIDToken(tok) ==
    LET v == Extra(tok, "id_token")
    IN  v.t # "string" \/ v.raw.empty

\* types.ParseDateTime of a time.Time: the DateTime of the same instant
ParseDateTime(tm) == [t |-> tm]

\* the claims whose unchecked .(string) assertions build the AuthUser,
\* in evaluation order
AssertedClaims == <<"sub", "email", "name", "email", "picture">>

\* the username is taken from sub instead of email
userLiteralUsernameSub(claims, tok) ==
    [isnil |-> FALSE,
     Id |-> claims["sub"].s,
     Username |-> claims["sub"].s,
     Name |-> claims["name"].s,
     Email |-> claims["email"].s,
     AvatarUrl |-> claims["picture"].s,
     RawUser |-> claims,
     AccessToken |-> tok.AccessToken,
     RefreshToken |-> tok.RefreshToken,
     Expiry |-> ZeroDateTime]

\* user := &AuthUser{...}, once every assertion has succeeded
userLiteral(claims, tok) ==
    [isnil |-> FALSE,
     Id |-> claims["sub"].s,
     Username |-> claims["email"].s,
     Name |-> claims["name"].s,
     Email |-> claims["email"].s,
     AvatarUrl |-> claims["picture"].s,
     RawUser |-> claims,
     AccessToken |-> tok.AccessToken,
     RefreshToken |-> tok.RefreshToken,
     Expiry |-> ZeroDateTime]

\* the email is kept only when email_verified is true
applyEmailVerifiedStrict(user, claims) ==
    IF claims["email_verified"] = JBool(TRUE)
    THEN [user EXCEPT !.Email = claims["email"].s]
    ELSE [user EXCEPT !.Email = ""]

\* if claims["email_verified"] == true { user.Email = claims["email"].(string) }
applyEmailVerified(user, claims) ==
    IF claims["email_verified"] = JBool(TRUE)
    THEN [user EXCEPT !.Email = claims["email"].s]
    ELSE user

Returned(user, err, trace) ==
    [panic |-> FALSE, panicAt |-> "", user |-> user, err |-> err, trace |-> trace]

Panicked(claim, trace) ==
    [panic |-> TRUE, panicAt |-> claim, user |-> NilUser, err |-> NilErr, trace |-> trace]

\* a failed validation still hands back the user built from the claims
FetchAuthUserPartial(prov, tok) ==
    IF missingIDToken(tok)
    THEN Returned(NilUser, NewErr("missing id_token", ""), <<"Extra">>)
    ELSE
    LET r == parseIDToken(prov, Extra(tok, "id_token").raw)
        c == ParseUnverified(Extra(tok, "id_token").raw).claims
    IN  IF ~r.err.isnil
        THEN Returned(userLiteral(c, tok), r.err, <<"Extra">> \o r.trace)
        ELSE Returned(userLiteral(c, tok), NilErr, <<"Extra">> \o r.trace)

FetchAuthUser(prov, tok) ==
    IF missingIDToken(tok)
    THEN Returned(NilUser, NewErr("missing id_token", ""), <<"Extra">>)
    ELSE
    LET r == parseIDToken(prov, Extra(tok, "id_token").raw)
        claims == r.claims
        bad == {i \in 1..Len(AssertedClaims) : ~AsString(claims[AssertedClaims[i]]).ok}
        first == CHOOSE i \in bad : \A j \in bad : i <= j
    IN  IF ~r.err.isnil
        THEN Returned(NilUser, r.err, <<"Extra">> \o r.trace)
        ELSE IF bad # {}
        THEN Panicked(AssertedClaims[first], <<"Extra">> \o r.trace)
        ELSE LET user  == applyEmailVerified(userLiteral(claims, tok), claims)
                 user2 == [user EXCEPT !.Expiry = ParseDateTime(tok.Expiry)]
             IN  Returned(user2, NilErr, <<"Extra">> \o r.trace \o <<"ParseDateTime">>)

(***************************************************************************)
(* Inputs of FetchAuthUser                                                 *)
(***************************************************************************)
ClientIds == {"", "client-1"}

IssValues ==
    {JStr(validIssuers[i]) : i \in 1..Len(validIssuers)}
    \cup {JStr("https://accounts.zoho.de"), JStr("https://ACCOUNTS.ZOHO.COM"),
          JStr("https://accounts.zoho.com/"), JNum("1"), JNil}

AudElems == {JStr(""), JStr("client-1"), JNum("7")}

RECURSIVE SeqsUpTo(_, _)
SeqsUpTo(S, n) ==
    IF n = 0 THEN {<<>>}
    ELSE LET shorter == SeqsUpTo(S, n - 1)
         IN  shorter \cup {Append(q, x) : q \in {r \in shorter : Len(r) = n - 1}, x \in S}

AudValues ==
    {JNil, JNum("7"), JStr(""), JStr("client-1"), JStr("client-2")}
    \cup {JList(q) : q \in SeqsUpTo(AudElems, MaxAudLen)}

SubValues == {JStr("123"), JStr(""), JNum("123"), JNil}

EmailValues == {JStr("a@b.com"), JStr(""), JBool(TRUE), JNil}

NameValues == {JStr("A B"), JNil}

PictureValues == {JStr("http://x/y.png"), JNum("0")}

EmailVerifiedValues == {JBool(TRUE), JBool(FALSE), JStr("true"), JNil}

LocaleValues == {JStr("en")}

ClaimSets ==
    [iss : IssValues, aud : AudValues, sub : SubValues, email : EmailValues,
     name : NameValues, picture : PictureValues, email_verified : EmailVerifiedValues,
     locale : LocaleValues]

\* the claims of a token every validation accepts for client-1
SampleClaims ==
    [iss |-> JStr("https://accounts.zoho.com"), aud |-> JStr("client-1"),
     sub |-> JStr("123"), email |-> JStr("a@b.com"), name |-> JStr("A B"),
     picture |-> JStr("http://x/y.png"), email_verified |-> JBool(TRUE),
     locale |-> JStr("en")]

MalformedRaws ==
    {Raw(FALSE, 1, "undecodable", "undecodable", EmptyClaims),
     Raw(FALSE, 2, "ok", "ok", EmptyClaims),
     Raw(FALSE, 4, "ok", "ok", EmptyClaims),
     Raw(FALSE, 3, "undecodable", "ok", EmptyClaims),
     Raw(FALSE, 3, "ok", "undecodable", EmptyClaims),
     Raw(FALSE, 3, "noalg", "ok", SampleClaims),
     Raw(FALSE, 3, "unknownalg", "ok", SampleClaims)}

IDTokens ==
    {[t |-> "nil", raw |-> EmptyRaw], [t |-> "float64", raw |-> EmptyRaw],
     [t |-> "string", raw |-> EmptyRaw]}
    \cup {[t |-> "string", raw |-> r] : r \in MalformedRaws}
    \cup {[t |-> "string", raw |-> Raw(FALSE, 3, "ok", "ok", c)] : c \in ClaimSets}

\* access token, refresh token and expiry of the token response
TokenFields ==
    {[AccessToken |-> "at-1", RefreshToken |-> "rt-1", Expiry |-> 1767225600],
     [AccessToken |-> "at-2", RefreshToken |-> "", Expiry |-> 0]}

(***************************************************************************)
(* The call of FetchAuthUser on one provider and one token                 *)
(***************************************************************************)
NoResult == Returned(NilUser, NilErr, <<>>)

FetchInit ==
    /\ \E c \in ClientIds : p = [NewZohoProvider EXCEPT !.clientId = c]
    /\ \E f \in TokenFields, i \in IDTokens :
          token = [AccessToken |-> f.AccessToken, RefreshToken |-> f.RefreshToken,
                   Expiry |-> f.Expiry, idToken |-> i]
    /\ pc = "ready"
    /\ result = NoResult

\* the state in which no call of FetchAuthUser is being looked at
FetchIdle ==
    /\ p = NewZohoProvider
    /\ token = [AccessToken |-> "", RefreshToken |-> "", Expiry |-> 0,
                idToken |-> [t |-> "nil", raw |-> EmptyRaw]]
    /\ pc = "idle"
    /\ result = NoResult

FetchAuthUserCall ==
    /\ pc = "ready"
    /\ result' = FetchAuthUser(p, token)
    /\ pc' = "done"
    /\ UNCHANGED <<p, token>>
    /\ UNCHANGED <<registryVars, pageVars>>

(***************************************************************************)
(* The provider registry: init() registers the Zoho factory; a lookup      *)
(* calls the factory; the instance's setters change its credentials        *)
(***************************************************************************)
\* func init() { Providers[NameZoho] = wrapFactory(NewZohoProvider) }
init == (NameZoho :> "NewZohoProvider")

\* every call hands out the one package-level object
allocZohoShared(h) == 1

\* return &Zoho{BaseProvider{...}}: the address of a new object
allocZoho(h) == Cardinality(DOMAIN h) + 1

ProviderNames == {NameZoho, "unknown"}

ClientIdValues == {"client-1", "client-2"}

ClientSecretValues == {"secret-1"}

RedirectURLValues == {"https://app.example.com/redirect"}

ScopeValues == {<<"email">>}

RegistryInit ==
    /\ Providers = init
    /\ heap = <<>>
    /\ handles = <<>>
    /\ lookupErr = NilErr

\* NewProviderByName(name): the factory registered under the name is called
NewProviderByName(name) ==
    /\ Len(handles) < MaxInstances
    /\ IF name \in DOMAIN Providers
       THEN LET a == allocZoho(heap)
            IN  /\ heap' = [x \in DOMAIN heap \cup {a} |->
                              IF x = a THEN NewZohoProvider ELSE heap[x]]
                /\ handles' = Append(handles, a)
                /\ lookupErr' = NilErr
       ELSE /\ lookupErr' = NewErr("Missing provider", name)
            /\ UNCHANGED <<heap, handles>>
    /\ UNCHANGED <<Providers, fetchVars, pageVars>>

SetClientId(h, v) ==
    /\ heap' = [heap EXCEPT ![handles[h]].clientId = v]
    /\ UNCHANGED <<Providers, handles, lookupErr, fetchVars, pageVars>>

SetClientSecret(h, v) ==
    /\ heap' = [heap EXCEPT ![handles[h]].clientSecret = v]
    /\ UNCHANGED <<Providers, handles, lookupErr, fetchVars, pageVars>>

SetRedirectURL(h, v) ==
    /\ heap' = [heap EXCEPT ![handles[h]].redirectURL = v]
    /\ UNCHANGED <<Providers, handles, lookupErr, fetchVars, pageVars>>

SetScopes(h, v) ==
    /\ heap' = [heap EXCEPT ![handles[h]].scopes = v]
    /\ UNCHANGED <<Providers, handles, lookupErr, fetchVars, pageVars>>

(***************************************************************************)
(* The confirm-email-change page: component instance x                     *)
(***************************************************************************)
RouteTokens == {"undefined", "token-a", "token-b"}

Passwords == {"", "pw-1", "pw-2"}

\* N.getJWTPayload(l?.token).newEmail || ""
newEmailOf(tok) == IF tok = "token-a" THEN "new@example.com" ELSE ""

PageInit ==
    /\ password_s = ""
    /\ loading_o = FALSE
    /\ success_f = FALSE
    /\ params_l \in RouteTokens
    /\ newEmail_n = newEmailOf(params_l)
    /\ pending = {}
    /\ submits = 0
    /\ resolved = 0
    /\ errors = 0
    /\ closed = FALSE

\* the state of a page that is not open
PageIdle ==
    /\ password_s = ""
    /\ loading_o = FALSE
    /\ success_f = FALSE
    /\ params_l = "undefined"
    /\ newEmail_n = ""
    /\ pending = {}
    /\ submits = 0
    /\ resolved = 0
    /\ errors = 0
    /\ closed = FALSE

\* a() without its first line: a submit starts a request whatever o is
submit_a_unguarded ==
    /\ ~success_f
    /\ submits < MaxSubmits
    /\ submits' = submits + 1
    /\ loading_o' = TRUE
    /\ pending' = pending \cup
          {[id |-> submits + 1, token |-> params_l, password |-> password_s]}
    /\ UNCHANGED <<password_s, success_f, params_l, newEmail_n, resolved, errors, closed>>
    /\ UNCHANGED <<fetchVars, registryVars>>

\* async function a(), up to its await, run by the form's submit event (the
\* form is mounted while f is false): if(o)return; o=true; the request is
\* sent, unless building it throws, which the catch reports before o=false
submit_a ==
    /\ ~success_f
    /\ submits < MaxSubmits
    /\ submits' = submits + 1
    /\ IF loading_o
       THEN UNCHANGED <<loading_o, pending, errors>>
       ELSE \/ /\ loading_o' = TRUE
               /\ pending' = pending \cup
                     {[id |-> submits + 1, token |-> params_l, password |-> password_s]}
               /\ UNCHANGED errors
            \/ /\ errors' = errors + 1
               /\ loading_o' = FALSE
               /\ UNCHANGED pending
    /\ UNCHANGED <<password_s, success_f, params_l, newEmail_n, resolved, closed>>
    /\ UNCHANGED <<fetchVars, registryVars>>

\* a() after its await, the request fulfilled: f=true; o=false
confirmEmailChange_fulfilled(req) ==
    /\ req \in pending
    /\ pending' = pending \ {req}
    /\ success_f' = TRUE
    /\ resolved' = resolved + 1
    /\ loading_o' = FALSE
    /\ UNCHANGED <<password_s, params_l, newEmail_n, submits, errors, closed>>
    /\ UNCHANGED <<fetchVars, registryVars>>

\* a() after its await, the request rejected: B.error($); o=false
confirmEmailChange_rejected(req) ==
    /\ req \in pending
    /\ pending' = pending \ {req}
    /\ errors' = errors + 1
    /\ loading_o' = FALSE
    /\ UNCHANGED <<password_s, success_f, params_l, newEmail_n, submits, resolved, closed>>
    /\ UNCHANGED <<fetchVars, registryVars>>

\* function u(): s=this.value
input_u(value) ==
    /\ ~success_f
    /\ password_s' = value
    /\ UNCHANGED <<loading_o, success_f, params_l, newEmail_n, pending, submits,
                   resolved, errors, closed>>
    /\ UNCHANGED <<fetchVars, registryVars>>

\* i.$$set with params, then i.$$.update: n follows the token
set_params(tok) ==
    /\ params_l' = tok
    /\ newEmail_n' = newEmailOf(tok)
    /\ UNCHANGED <<password_s, loading_o, success_f, pending, submits, resolved,
                   errors, closed>>
    /\ UNCHANGED <<fetchVars, registryVars>>

\* const r = () => window.close(), the Close button of the success view
close_r ==
    /\ success_f
    /\ closed' = TRUE
    /\ UNCHANGED <<password_s, loading_o, success_f, params_l, newEmail_n, pending,
                   submits, resolved, errors>>
    /\ UNCHANGED <<fetchVars, registryVars>>

(***************************************************************************)
(* Specifications                                                          *)
(***************************************************************************)
Init == FetchInit /\ RegistryInit /\ PageIdle

Next == FetchAuthUserCall

Spec == Init /\ [][Next]_vars

InitRegistry == FetchIdle /\ RegistryInit /\ PageIdle

NextRegistry ==
    \/ \E name \in ProviderNames : NewProviderByName(name)
    \/ \E h \in 1..Len(handles), v \in ClientIdValues : SetClientId(h, v)
    \/ \E h \in 1..Len(handles), v \in ClientSecretValues : SetClientSecret(h, v)
    \/ \E h \in 1..Len(handles), v \in RedirectURLValues : SetRedirectURL(h, v)
    \/ \E h \in 1..Len(handles), v \in ScopeValues : SetScopes(h, v)

SpecRegistry == InitRegistry /\ [][NextRegistry]_vars

InitPage == FetchIdle /\ RegistryInit /\ PageInit

NextPage ==
    \/ submit_a
    \/ \E req \in pending : confirmEmailChange_fulfilled(req)
    \/ \E req \in pending : confirmEmailChange_rejected(req)
    \/ \E value \in Passwords : input_u(value)
    \/ \E tok \in RouteTokens : set_params(tok)
    \/ close_r

SpecPage == InitPage /\ [][NextPage]_vars

(***************************************************************************)
(* Vocabulary of the properties of FetchAuthUser                           *)
(***************************************************************************)
Done == pc = "done"

\* the id_token extra field is a non-empty string
HasIDToken == token.idToken.t = "string" /\ ~token.idToken.raw.empty

\* ... that is a three-segment JWT with a decodable header naming a known
\* algorithm and a decodable payload
Decodable ==
    /\ HasIDToken
    /\ token.idToken.raw.parts = 3
    /\ token.idToken.raw.header = "ok"
    /\ token.idToken.raw.payload = "ok"

\* the claims the ID token carries
Carried == token.idToken.raw.claims

ZohoIssuers == {validIssuers[i] : i \in 1..Len(validIssuers)}

IssuerAllowed == Carried.iss.t = "string" /\ Carried.iss.s \in ZohoIssuers

\* aud, a string or a list of strings, contains the client id
AudContains(aud, cid) ==
    \/ aud.t = "string" /\ aud.s = cid
    \/ /\ aud.t = "list"
       /\ \A i \in 1..Len(aud.l) : aud.l[i].t = "string"
       /\ \E i \in 1..Len(aud.l) : aud.l[i].s = cid

\* aud is absent, the empty string or the empty list
AudMissingOrEmpty(aud) ==
    \/ aud.t = "nil"
    \/ aud.t = "string" /\ aud.s = ""
    \/ aud.t = "list" /\ Len(aud.l) = 0

\* the ID token passes the issuer and the audience validation
Validated == Decodable /\ isValidIssuer(AsString(Carried.iss).val) /\ audienceOK(p, Carried)

ProfileClaims == {"sub", "email", "name", "picture"}

Succeeded == Done /\ ~result.panic /\ result.err.isnil /\ ~result.user.isnil

Failed(msg) == Done /\ ~result.panic /\ result.user = NilUser /\ result.err.msg = msg

(***************************************************************************)
(* C1: a token whose id_token extra field is absent, not a string or the   *)
(* empty string makes FetchAuthUser return the error "missing id_token"    *)
(* and no AuthUser, before anything is parsed or validated.                *)
(***************************************************************************)
C1_MissingIDToken ==
    (Done /\ ~HasIDToken) =>
        /\ Failed("missing id_token")
        /\ result.err = NewErr("missing id_token", "")
        /\ result.trace = <<"Extra">>

C1_Witness ==
    /\ Done
    /\ token.idToken.t = "string"
    /\ token.idToken.raw.empty
    /\ result.err.msg = "missing id_token"

(***************************************************************************)
(* C2: an AuthUser is returned only if iss is a string equal to one of the *)
(* nine allow-listed issuers; any other iss of a decodable ID token (a     *)
(* near miss, a non-string, none) fails with "invalid id_token issuer"     *)
(* and no AuthUser.                                                        *)
(***************************************************************************)
C2_IssuerAllowList ==
    /\ Cardinality(ZohoIssuers) = 9
    /\ Succeeded => IssuerAllowed
    /\ (Done /\ Decodable /\ ~IssuerAllowed) =>
          /\ Failed("invalid id_token issuer")
          /\ result.err.arg = AsString(Carried.iss).val

C2_Witness ==
    /\ Done
    /\ Decodable
    /\ Carried.iss = JStr("https://accounts.zoho.de")
    /\ Failed("invalid id_token issuer")

(***************************************************************************)
(* C3: an AuthUser is returned only if aud (a string or a list of strings) *)
(* contains the configured clientId; a decodable ID token with an allowed  *)
(* issuer whose aud is missing, empty or lacks the clientId fails with     *)
(* "invalid id_token audience" and no AuthUser, also when the clientId is  *)
(* the empty string.                                                       *)
(***************************************************************************)
C3_AudienceContainsClientId ==
    /\ Succeeded => AudContains(Carried.aud, p.clientId)
    /\ (Done /\ Decodable /\ IssuerAllowed
          /\ (AudMissingOrEmpty(Carried.aud) \/ ~AudContains(Carried.aud, p.clientId))) =>
          Failed("invalid id_token audience")

C3_Witness ==
    /\ Done
    /\ Decodable
    /\ IssuerAllowed
    /\ p.clientId = ""
    /\ Carried.aud \in {JNil, JStr(""), JList(<<JStr("client-1")>>)}
    /\ Failed("invalid id_token audience")

(***************************************************************************)
(* C4: a validated ID token with string claims sub, email, name, picture   *)
(* yields an AuthUser with id = sub, username = email, name = name,        *)
(* email = email, avatarUrl = picture, the full claim set as raw user, the *)
(* token's access and refresh tokens and the token's expiry.               *)
(***************************************************************************)
C4_UserFromClaims ==
    (Done /\ Validated /\ \A k \in ProfileClaims : Carried[k].t = "string") =>
        /\ Succeeded
        /\ result.user.Id = Carried.sub.s
        /\ result.user.Username = Carried.email.s
        /\ result.user.Name = Carried.name.s
        /\ result.user.Email = Carried.email.s
        /\ result.user.AvatarUrl = Carried.picture.s
        /\ result.user.RawUser = Carried
        /\ result.user.AccessToken = token.AccessToken
        /\ result.user.RefreshToken = token.RefreshToken
        /\ result.user.Expiry.t = token.Expiry

C4_Witness ==
    /\ Succeeded
    /\ result.user.Id = "123"
    /\ result.user.Username = "a@b.com"
    /\ result.user.Name = "A B"
    /\ result.user.AvatarUrl = "http://x/y.png"
    /\ result.user.RawUser.locale = JStr("en")
    /\ result.user.Expiry.t = 1767225600

(***************************************************************************)
(* C5: whenever FetchAuthUser returns an error the AuthUser is nil, and    *)
(* whenever it returns an AuthUser the error is nil.                       *)
(***************************************************************************)
C5_AllOrNothing ==
    (Done /\ ~result.panic) =>
        /\ ~result.err.isnil => result.user = NilUser
        /\ ~result.user.isnil => result.err.isnil
        /\ result.err.isnil <=> ~result.user.isnil

C5_Witness ==
    /\ Done
    /\ Decodable
    /\ \A k \in ProfileClaims : Carried[k].t = "string"
    /\ result.err.msg = "invalid id_token audience"
    /\ result.user = NilUser

(***************************************************************************)
(* C6: whenever FetchAuthUser succeeds, the AuthUser's id and email are    *)
(* non-empty.                                                              *)
(***************************************************************************)
C6_IdAndEmailNonEmpty ==
    Succeeded => result.user.Id # "" /\ result.user.Email # ""

(***************************************************************************)
(* C8: a validated ID token in which sub, email, name or picture is absent *)
(* or not a string makes FetchAuthUser return an error and no AuthUser;    *)
(* it never panics.                                                        *)
(***************************************************************************)
C8_MissingClaimIsAnError ==
    (Done /\ Validated /\ \E k \in ProfileClaims : Carried[k].t # "string") =>
        /\ ~result.panic
        /\ ~result.err.isnil
        /\ result.user = NilUser

(***************************************************************************)
(* C9: email_verified has no influence: replacing its value in the ID      *)
(* token (true, false, a non-boolean, absent) changes nothing of the       *)
(* outcome but the raw claims, and on success the AuthUser's email is the  *)
(* email claim.                                                            *)
(***************************************************************************)
WithEmailVerified(tok, ev) ==
    [tok EXCEPT !.idToken.raw.claims.email_verified = ev]

\* an outcome without the raw claims of its AuthUser
Outcome(r) == [r EXCEPT !.user.RawUser = EmptyClaims]

C9_EmailVerifiedIgnored ==
    (Done /\ Decodable) =>
        /\ \A ev \in EmailVerifiedValues :
              LET other == FetchAuthUser(p, WithEmailVerified(token, ev))
              IN  /\ Outcome(other) = Outcome(result)
                  /\ ~other.user.isnil => other.user.RawUser.email_verified = ev
        /\ Succeeded => result.user.Email = Carried.email.s

C9_Witness ==
    /\ Succeeded
    /\ Carried.email_verified = JBool(FALSE)
    /\ result.user.Email = "a@b.com"

(***************************************************************************)
(* C7: looking up "zoho" yields a provider with the scopes profile, email, *)
(* openid and PKCE on; every lookup constructs a new instance, so the      *)
(* instances are distinct, and a credential mutation of one instance       *)
(* leaves every other instance's configuration unchanged.                  *)
(***************************************************************************)
Instance(i) == heap[handles[i]]

C7_LookupDefaults ==
    (Len(handles') = Len(handles) + 1) =>
        LET new == heap'[handles'[Len(handles')]]
        IN  /\ new.scopes = <<"profile", "email", "openid">>
            /\ new.pkce = TRUE
            /\ new.clientId = "" /\ new.clientSecret = "" /\ new.redirectURL = ""
            /\ \A i \in 1..Len(handles) :
                  handles'[i] = handles[i] /\ heap'[handles[i]] = heap[handles[i]]

C7_MutationIsLocal ==
    \A i \in 1..Len(handles) : \A j \in 1..Len(handles) :
        (i # j /\ heap'[handles[i]] # heap[handles[i]]) =>
            heap'[handles[j]] = heap[handles[j]]

C7_RegistryFreshInstances ==
    /\ [](NameZoho \in DOMAIN Providers)
    /\ [](\A i \in 1..Len(handles) :
            /\ handles[i] \in DOMAIN heap
            /\ Instance(i).pkce = TRUE
            /\ \A j \in 1..Len(handles) : i # j => handles[i] # handles[j])
    /\ [][C7_LookupDefaults /\ C7_MutationIsLocal]_vars

C7_Witness ==
    /\ Len(handles) = 2
    /\ Instance(1).clientId = "client-1"
    /\ Instance(1).clientSecret = "secret-1"
    /\ Instance(1).redirectURL = "https://app.example.com/redirect"
    /\ Instance(1).scopes = <<"email">>
    /\ Instance(2) = NewZohoProvider

(***************************************************************************)
(* C10: on the confirm-email-change page a submit made while a request is  *)
(* pending is ignored, so at most one request is in flight; the loading    *)
(* flag is true exactly while a request is in flight and is false once it  *)
(* settled, fulfilled or rejected; the success flag is set only when a     *)
(* request is fulfilled and never goes back to false.                      *)
(***************************************************************************)
C10_SubmitIgnoredWhilePending ==
    (loading_o /\ submits' = submits + 1) =>
        /\ pending' = pending
        /\ UNCHANGED <<password_s, loading_o, success_f, params_l, newEmail_n, resolved,
                       errors, closed>>

C10_SettleResetsLoading ==
    (pending # {} /\ pending' = {}) => (~loading_o' /\ (resolved' = resolved + 1 \/ errors' = errors + 1))

C10_SuccessOnlyOnFulfil ==
    /\ success_f => success_f'
    /\ (~success_f /\ success_f') => (resolved' = resolved + 1 /\ pending' # pending)

C10_SingleFlight ==
    /\ [](Cardinality(pending) <= 1)
    /\ [](loading_o <=> pending # {})
    /\ [](success_f <=> resolved > 0)
    /\ [][C10_SubmitIgnoredWhilePending /\ C10_SettleResetsLoading
            /\ C10_SuccessOnlyOnFulfil]_vars

C10_Witness ==
    /\ submits = 3
    /\ errors = 1
    /\ resolved = 1
    /\ success_f
    /\ ~loading_o
    /\ pending = {}

====
